---- MODULE Spec2Model ----
(***************************************************************************)
(* Model of the naadanu event application: the public voting flow          *)
(* (VotingPage.tsx), the participant's notification bell, the admin        *)
(* screens for finalist performances, announcements, auditions and         *)
(* participant statuses, and the storage layer the SQL migrations define   *)
(* (tables, constraints, row level security policies, triggers, the        *)
(* performance_vote_counts view).                                          *)
(*                                                                         *)
(* Every database request is one atomic step at the storage layer.  In     *)
(* the voting page and in the bell the code before an await and the code   *)
(* after it are separate steps, so requests interleave; a handler of an    *)
(* admin screen is one step together with the reload that follows it.      *)
(* The listing of the voting page is read in one step, except where the    *)
(* reads themselves are followed (StartRead, ServeRead, CompleteRead).     *)
(***************************************************************************)
EXTENDS Integers, FiniteSets, Sequences, Bags, TLC

\* ------------------------------------------------------------------ bounds
\* number of finalist performances (ids are never reused)
MaxPerf == 2
\* number of vote requests in flight at the same time: when two devices vote,
\* and when two tabs of one device vote
MaxInFlight == 1
MaxRacing == 2
\* the values Date.now() takes while a browser without local storage votes
MaxNow == 2
\* how many performances the admin adds to the ones present at the start
MaxAdded == 1
\* how many status_change notifications the status trigger creates
MaxNotified == 2
\* how many announcements the admin creates on top of the one present at the start
MaxAnnounced == 1
\* how many notification rows callers insert through the API
MaxDirect == 2
\* how many auditions the admin schedules on top of the ones present at the start
MaxScheduled == 1
\* how many listing reads a tab starts
MaxStarted == 3
\* number of requests of the notification bell in flight at the same time
MaxBellCalls == 2
\* how many notifications the audition screen's requests create
MaxAuditionNotified == 3

\* ------------------------------------------------------------ fixed universe
\* the ids of the performances present at the start, and of all that ever exist
InitPerfIds == 1..MaxPerf
PerfIds == 1..(MaxPerf + MaxAdded)
NULL == "null"
\* votingFor when no vote is being submitted
NO_PERFORMANCE == 0
\* editingId when the announcement form creates a row
NO_ANNOUNCEMENT == 0
\* related_id of a notification that refers to no row
NO_RELATED == 0
ANON == "anon"

\* the admin account, and the registered participants (rows of `participants`)
AdminIds == {"admin1"}
ParticipantIds == {"p1", "p2"}

\* browsers with the voting page open: d1 is an anonymous visitor with the tabs
\* t1 and t2, d2 is logged in as participant p2 and has the tab t3, d3 is an
\* anonymous visitor with the tab t4 whose browser refuses access to localStorage,
\* d4 is logged in as the admin and has the tab t5
Devices == {"d1", "d2", "d3", "d4"}
Tabs == {"t1", "t2", "t3", "t4", "t5"}
TabDevice(t) ==
  IF t \in {"t1", "t2"} THEN "d1" ELSE IF t = "t3" THEN "d2" ELSE IF t = "t4" THEN "d3" ELSE "d4"
\* localStorage.getItem and setItem throw on this device
StorageThrows(d) == d = "d3"
\* auth.uid() of the requests a device sends
DeviceUid(d) == IF d = "d2" THEN "p2" ELSE IF d = "d4" THEN "admin1" ELSE ANON
\* the admin session the specifications with one admin follow, and the two
\* sessions open when two admins work at once
AdminSessions == {"a1"}
BothSessions == {"a1", "a2"}
Callers == {ANON} \cup ParticipantIds \cup AdminIds


VARIABLES
  final_performances,   \* table: id -> row
  performance_votes,    \* table: bag of rows [performance_id, voter_ip]
  participants,         \* table: id -> row
  auditions,            \* table: id -> row
  announcements,        \* table: id -> row
  notifications,        \* table: bag of rows
  nextPerfId,           \* the id the next inserted performance gets
  adminPerformances,    \* admin session -> the rows its finalists screen has loaded
  categoryPerformances, \* admin session -> category -> the performance shown as its top
  selectedParticipants, \* admin session -> the candidates its add form offers
  adminError,           \* admin session -> error banner of its finalists screen
  nextAnnouncementId,   \* the id the next inserted announcement gets
  adminAnnouncements,   \* admin session -> the rows its announcements screen has loaded
  nextAuditionId,       \* the id the next inserted audition gets
  adminAuditions,       \* admin session -> the rows its auditions screen has loaded
  auditionError,        \* admin session -> error banner of its auditions screen
  localStorage,         \* device -> [voter_id, voted_performances]
  performances,         \* tab -> listing shown by the voting page
  votingFor,            \* tab -> id of the performance being voted for, or NO_PERFORMANCE
  message,              \* tab -> outcome banner of the voting page
  messageTimer,         \* tab -> a timer that clears the banner is pending
  now,                  \* Date.now()
  calls,                \* bag of the vote requests in flight
  reads,                \* set of the listing reads in flight
  started,              \* tab -> how many listing reads it has started
  latestRead,           \* tab -> what storage answered to its most recently started read
  loading,              \* tab -> the spinner is shown in place of the page
  failed,               \* <<tab, performance>> of the vote requests that did not reach storage
  mounted,              \* the notification bell of the participant is mounted
  bellNotifications,    \* the bell's list: sequence of [id, is_read]
  unreadCount,          \* the number on the bell's badge
  bellCalls,            \* bag of the bell's requests in flight
  realtimeSeen          \* ids the bell's channel will not deliver (any more)

storage == <<final_performances, performance_votes, participants, auditions,
             announcements, notifications>>
otherTables == <<participants, auditions, announcements, notifications>>
reading == <<reads, started, latestRead, loading>>
bell == <<mounted, bellNotifications, unreadCount, bellCalls, realtimeSeen>>
asyncSide == <<reading, failed, bell>>
voterSide == <<localStorage, performances, votingFor, message, messageTimer, now, calls,
              asyncSide>>
curation == <<nextPerfId, adminPerformances, categoryPerformances, selectedParticipants,
             adminError>>
announcing == <<nextAnnouncementId, adminAnnouncements>>
auditioning == <<nextAuditionId, adminAuditions, auditionError>>
vars == <<storage, voterSide, curation, announcing, auditioning>>

\* ------------------------------------------------------------ storage layer
\* EXISTS (SELECT 1 FROM admin WHERE admin.id = auth.uid()), evaluated under the
\* admin table's own policy "Admins can only view their own record"
IsAdmin(uid) == \E a \in {x \in AdminIds : x = uid} : a = uid

RoleOf(uid) == IF uid = ANON THEN "anon" ELSE "authenticated"

\* policies on performance_votes: those the voting migration creates, minus those
\* the privacy migration drops, plus the one it creates
VotingSystemPolicies == {"Anyone can view votes", "Anyone can vote"}
\* the privacy migration without its DROP POLICY
ProtectVoterPrivacyDropped_None == {}
ProtectVoterPrivacyDropped == {"Anyone can view votes"}
ProtectVoterPrivacyCreated == {"Admins can view raw votes"}
VotesPolicies ==
  (VotingSystemPolicies \ ProtectVoterPrivacyDropped) \cup ProtectVoterPrivacyCreated

PolicyCmd(pol) == IF pol = "Anyone can vote" THEN "INSERT" ELSE "SELECT"
PolicyRoles(pol) ==
  IF pol = "Admins can view raw votes" THEN {"authenticated"} ELSE {"authenticated", "anon"}
PolicyCheck(pol, uid) ==
  IF pol = "Admins can view raw votes" THEN IsAdmin(uid) ELSE TRUE

\* row level security: a command is allowed when some policy for it, granted to
\* the caller's role, passes
VotesAllowed(cmd, uid) ==
  \E pol \in VotesPolicies :
     /\ PolicyCmd(pol) = cmd
     /\ RoleOf(uid) \in PolicyRoles(pol)
     /\ PolicyCheck(pol, uid)

\* SELECT ... FROM performance_votes as seen by a caller
SelectPerformanceVotes(uid) ==
  IF VotesAllowed("SELECT", uid) THEN performance_votes ELSE EmptyBag

\* policy "Anyone can view active performances" on final_performances
SelectFinalPerformances(uid) ==
  {id \in DOMAIN final_performances : final_performances[id].is_active \/ IsAdmin(uid)}

\* the join of the view without its ON condition
VotesOf_AllRows(votes, id) == votes

VotesOf(votes, id) == [r \in {x \in DOMAIN votes : x.performance_id = id} |-> votes[r]]

\* the view performance_vote_counts (security_invoker = false: it reads both
\* tables with the owner's rights): one row per performance, COUNT(pv.id)
performance_vote_counts ==
  [id \in DOMAIN final_performances |->
     [participant_id |-> final_performances[id].participant_id,
      category_id |-> final_performances[id].category_id,
      performance_order |-> final_performances[id].performance_order,
      is_active |-> final_performances[id].is_active,
      vote_count |-> BagCardinality(VotesOf(performance_votes, id))]]

\* the foreign key without ON DELETE CASCADE taking effect
CascadeVotes_None(votes, id) == votes
\* the cascade removing the votes of every performance
CascadeVotes_AllRows(votes, id) == EmptyBag

\* ON DELETE CASCADE of performance_votes.performance_id
CascadeVotes(votes, id) ==
  [r \in {x \in DOMAIN votes : x.performance_id # id} |-> votes[r]]

VoteRow(id, voter) == [performance_id |-> id, voter_ip |-> voter]

\* the table without its UNIQUE constraint
UniqueViolation_None(votes, row) == FALSE
\* the constraint as UNIQUE(voter_ip)
UniqueViolation_VoterOnly(votes, row) ==
  \E r \in BagToSet(votes) : r.voter_ip = row.voter_ip

\* UNIQUE(performance_id, voter_ip)
UniqueViolation(votes, row) == CopiesIn(row, votes) > 0
\* performance_id REFERENCES final_performances(id)
ForeignKeyViolation(perfs, row) == row.performance_id \notin DOMAIN perfs

\* SQLSTATE the insert of a vote row ends with (NULL: the row is stored)
InsertVoteError(votes, perfs, uid, row) ==
  IF ~VotesAllowed("INSERT", uid) THEN "42501"
  ELSE IF UniqueViolation(votes, row) THEN "23505"
  ELSE IF ForeignKeyViolation(perfs, row) THEN "23503"
  ELSE NULL

\* --------------------------------------------------- rows present at the start
InitParticipants ==
  [p \in ParticipantIds |->
     [status |-> "selected",
      category_id |-> IF p = "p1" THEN "Solo Singing" ELSE "Solo Dancing"]]
InitAuditions ==
  (1 :> [participant_id |-> "p1", scheduled |-> TRUE, result |-> "qualified"]) @@
  (2 :> [participant_id |-> "p2", scheduled |-> TRUE, result |-> "qualified"])
InitAnnouncements == 1 :> [category_id |-> NULL, is_active |-> TRUE]
\* the position of a participant among the rows an INSERT ... SELECT creates
Rank(p) == IF p = "p1" THEN 1 ELSE 2

\* INSERT INTO notifications: one unread row per participant of ps, each with a
\* fresh id
InsertNotifications(notifs, ps, type, related) ==
  notifs (+) SetToBag(
    {[id |-> BagCardinality(notifs) + Cardinality({q \in ps : Rank(q) <= Rank(p)}),
      participant_id |-> p, type |-> type, related_id |-> related, is_read |-> FALSE]
       : p \in ps})

InitNotifications == InsertNotifications(EmptyBag, ParticipantIds, "announcement", 1)

\* ----------------------------------------------------- voting page (client)
ALREADY_VOTED == "You have already voted for this performance!"
VOTE_FAILED == "Failed to submit vote. Please try again."
VOTE_UNEXPECTED == "An unexpected error occurred while voting."
VOTE_RECORDED == "Thank you! Your vote has been recorded."

\* the catch branch returns []
getVotedPerformances(ls, d) == IF StorageThrows(d) THEN {} ELSE ls[d].voted_performances

\* the catch branch only logs
markAsVoted(ls, d, id) ==
  IF StorageThrows(d) THEN ls ELSE [ls EXCEPT ![d].voted_performances = @ \cup {id}]

\* `voter_${Date.now()}_${Math.random()...}`: a token no other device holds
NewVoterId(d) ==
  IF d = "d1" THEN "voter_1" ELSE IF d = "d2" THEN "voter_2"
  ELSE IF d = "d3" THEN "voter_3" ELSE "voter_4"
\* `fallback_voter_${Date.now()}`
FallbackVoterId(n) ==
  IF n = 0 THEN "fallback_voter_0" ELSE IF n = 1 THEN "fallback_voter_1"
  ELSE IF n = 2 THEN "fallback_voter_2" ELSE "fallback_voter_3"

\* the identifier getVoterIdentifier returns, and localStorage after the call
getVoterIdentifier(ls, d) ==
  IF StorageThrows(d) THEN FallbackVoterId(now)
  ELSE IF ls[d].voter_id = NULL THEN NewVoterId(d) ELSE ls[d].voter_id
StoreVoterIdentifier(ls, d) ==
  IF StorageThrows(d) THEN ls
  ELSE IF ls[d].voter_id = NULL THEN [ls EXCEPT ![d].voter_id = NewVoterId(d)] ELSE ls

\* participants rows a caller may read (policy "Participants can view own data")
SelectParticipants(uid) ==
  {p \in DOMAIN participants : RoleOf(uid) = "authenticated" /\ (uid = p \/ IsAdmin(uid))}

\* ids in the order of .order('performance_order')
OrderedBy(perfs, ids) ==
  CHOOSE s \in [1..Cardinality(ids) -> ids] :
    /\ \A i, j \in 1..Cardinality(ids) : i # j => s[i] # s[j]
    /\ \A i, j \in 1..Cardinality(ids) :
         i < j => \/ perfs[s[i]].performance_order < perfs[s[j]].performance_order
                  \/ /\ perfs[s[i]].performance_order = perfs[s[j]].performance_order
                     /\ s[i] < s[j]

\* primary query: active performances with participants!inner and categories!inner
PrimaryQuery(uid) ==
  OrderedBy(final_performances,
    {id \in SelectFinalPerformances(uid) :
       /\ final_performances[id].is_active
       /\ final_performances[id].participant_id \in SelectParticipants(uid)})

\* fallback query: select('*') of the active performances
SimpleQuery(uid) ==
  OrderedBy(final_performances,
    {id \in SelectFinalPerformances(uid) : final_performances[id].is_active})

ListingEntry(id, order, count, voted) ==
  [id |-> id, performance_order |-> order, vote_count |-> count, has_voted |-> voted]

\* performancesWithVotes of the primary path
performancesWithVotes(data, voteData, voted) ==
  [i \in DOMAIN data |->
     ListingEntry(data[i].id, data[i].performance_order,
                  BagCardinality(VotesOf(voteData, data[i].id)),
                  data[i].id \in voted)]

\* fetchParticipantDetails of the fallback path: vote_count 0, has_voted false
fetchParticipantDetails(data) ==
  [i \in DOMAIN data |-> ListingEntry(data[i].id, data[i].performance_order, 0, FALSE)]

QueryRows(ids) ==
  [i \in DOMAIN ids |->
     [id |-> ids[i], performance_order |-> final_performances[ids[i]].performance_order]]

ListingIds(t) == {performances[t][i].id : i \in DOMAIN performances[t]}
ListingOf(t, id) == CHOOSE e \in {performances[t][i] : i \in DOMAIN performances[t]} : e.id = id

\* the listing fetchPerformances leaves in tab t, with ls in localStorage:
\* "primary": the primary query answers; the listing query, the vote rows and the
\*            local voted list give the listing
\* "fallback": the primary query reports an error; the simple query and
\*            fetchParticipantDetails give the listing
\* "failed": the simple query reports an error too, or a call throws; the
\*            listing stays
fetchPerformances(t, outcome, ls) ==
  LET uid == DeviceUid(TabDevice(t)) IN
  CASE outcome = "primary" ->
         performancesWithVotes(QueryRows(PrimaryQuery(uid)), SelectPerformanceVotes(uid),
                               getVotedPerformances(ls, TabDevice(t)))
    [] outcome = "fallback" -> fetchParticipantDetails(QueryRows(SimpleQuery(uid)))
    [] outcome = "failed" -> performances[t]

\* fetchPerformances on mount or from a refresh button, the primary query answering
FetchPerformances(t) ==
  /\ performances' = [performances EXCEPT ![t] = fetchPerformances(t, "primary", localStorage)]
  /\ UNCHANGED <<storage, curation, announcing, auditioning, asyncSide, localStorage, votingFor, message, messageTimer, now, calls>>

\* fetchPerformances on mount or from a refresh button, the primary query
\* reporting an error
FetchPerformancesFallback(t) ==
  /\ performances' = [performances EXCEPT ![t] = fetchPerformances(t, "fallback", localStorage)]
  /\ UNCHANGED <<storage, curation, announcing, auditioning, asyncSide, localStorage, votingFor, message, messageTimer, now, calls>>

\* the Vote button of a listed performance: disabled={has_voted || votingFor === id};
\* the listing is rendered when loading is false
ButtonEnabled(t, id) ==
  /\ ~loading[t]
  /\ id \in ListingIds(t)
  /\ ~ListingOf(t, id).has_voted
  /\ votingFor[t] # id

\* handleVote up to its await: answered from the local list, or an insert is sent
HandleVote(t, id, limit) ==
  LET d == TabDevice(t) IN
  /\ ButtonEnabled(t, id)
  /\ IF id \in getVotedPerformances(localStorage, d)
       THEN /\ message' = [message EXCEPT ![t] = ALREADY_VOTED]
            /\ UNCHANGED <<localStorage, votingFor, calls>>
       ELSE /\ BagCardinality(calls) < limit
            /\ votingFor' = [votingFor EXCEPT ![t] = id]
            /\ message' = [message EXCEPT ![t] = NULL]
            /\ localStorage' = StoreVoterIdentifier(localStorage, d)
            /\ calls' = calls (+) SetToBag(
                 {[tab |-> t, performance_id |-> id,
                   voter_ip |-> getVoterIdentifier(localStorage, d),
                   pc |-> "request", error |-> NULL]})
  /\ UNCHANGED <<storage, curation, announcing, auditioning, asyncSide, performances, messageTimer, now>>

\* the requests in flight once request c has its answer
Answered(cs, c, err) ==
  (cs (-) SetToBag({c})) (+) SetToBag({[c EXCEPT !.pc = "response", !.error = err]})

\* the insert into performance_votes reaches storage
InsertVote(c) ==
  LET row == VoteRow(c.performance_id, c.voter_ip)
      err == InsertVoteError(performance_votes, final_performances,
                             DeviceUid(TabDevice(c.tab)), row) IN
  /\ BagIn(c, calls) /\ c.pc = "request"
  /\ performance_votes' = IF err = NULL THEN performance_votes (+) SetToBag({row})
                                        ELSE performance_votes
  /\ calls' = Answered(calls, c, err)
  /\ UNCHANGED <<final_performances, otherTables, curation, announcing, auditioning, asyncSide, localStorage,
                 performances, votingFor, message, messageTimer, now>>

\* what supabase-js answers when the request does not reach storage: an error
\* object that is not a database error, or the awaited call throws
RequestFailures == {"fetch_failed", "thrown"}

\* the insert into performance_votes does not reach storage
FailVote(c, err) ==
  /\ BagIn(c, calls) /\ c.pc = "request"
  /\ calls' = Answered(calls, c, err)
  /\ failed' = failed \cup {<<c.tab, c.performance_id>>}
  /\ UNCHANGED <<storage, curation, announcing, auditioning, reading, bell, localStorage,
                 performances, votingFor, message, messageTimer, now>>

\* browsers other than the ones whose pages are followed
Elsewhere == {"e1", "e2"}

\* the insert of handleVote from a browser elsewhere reaches storage
VoteElsewhere(v, id) ==
  LET row == VoteRow(id, v) IN
  /\ InsertVoteError(performance_votes, final_performances, ANON, row) = NULL
  /\ performance_votes' = performance_votes (+) SetToBag({row})
  /\ UNCHANGED <<final_performances, otherTables, voterSide, curation, announcing, auditioning>>

\* every error object taken for the duplicate error
IsDuplicateError_AnyError(err) == TRUE

\* error.message.includes('duplicate') || error.code === '23505'
IsDuplicateError(err) == err = "23505"

\* the banner handleVote shows for an answer
VoteMessage(err) ==
  IF err = "thrown" THEN VOTE_UNEXPECTED
  ELSE IF err # NULL THEN (IF IsDuplicateError(err) THEN ALREADY_VOTED ELSE VOTE_FAILED)
  ELSE VOTE_RECORDED

\* markAsVoted called for every error object
MarksVoted_EveryError(err) == err # "thrown"

\* markAsVoted called for every answer
MarksVoted_EveryAnswer(err) == TRUE

\* markAsVoted missing from the success branch
MarksVoted_DuplicateOnly(err) == err # NULL /\ err # "thrown" /\ IsDuplicateError(err)

\* markAsVoted missing from the duplicate branch
MarksVoted_SuccessOnly(err) == err = NULL

\* whether handleVote calls markAsVoted for an answer
MarksVoted(err) == err = NULL \/ (err # "thrown" /\ IsDuplicateError(err))

\* handleVote after its await, with the fetchPerformances() of the success
\* branch and the finally block
HandleVoteResponse(c) ==
  LET t == c.tab IN
  /\ BagIn(c, calls) /\ c.pc = "response"
  /\ message' = [message EXCEPT ![t] = VoteMessage(c.error)]
  /\ localStorage' = IF MarksVoted(c.error)
                       THEN markAsVoted(localStorage, TabDevice(t), c.performance_id)
                       ELSE localStorage
  /\ \E outcome \in {"primary", "fallback", "failed"} :
        performances' = [performances EXCEPT ![t] =
           IF c.error = NULL THEN fetchPerformances(t, outcome, localStorage') ELSE @]
  /\ votingFor' = [votingFor EXCEPT ![t] = NO_PERFORMANCE]
  /\ messageTimer' = [messageTimer EXCEPT ![t] = TRUE]
  /\ calls' = calls (-) SetToBag({c})
  /\ UNCHANGED <<storage, curation, announcing, auditioning, asyncSide, now>>

\* fetchPerformances() is called: setLoading(true), and its first request leaves
startRead(t) ==
  /\ started[t] < MaxStarted
  /\ loading' = [loading EXCEPT ![t] = TRUE]
  /\ started' = [started EXCEPT ![t] = @ + 1]
  /\ reads' = reads \cup {[tab |-> t, seq |-> started[t] + 1, pc |-> "request",
                           path |-> "primary", listing |-> << >>]}
  /\ UNCHANGED latestRead

\* fetchPerformances on mount, or from the Refresh button of the rendered page,
\* its requests not yet answered
StartRead(t) ==
  /\ started[t] = 0 \/ ~loading[t]
  /\ startRead(t)
  /\ UNCHANGED <<storage, curation, announcing, auditioning, localStorage, performances,
                 votingFor, message, messageTimer, now, calls, failed, bell>>

\* storage answers the queries of a read: the primary query and the vote rows,
\* or the simple query when the primary query reports an error
ServeRead(r, outcome) ==
  LET listing == fetchPerformances(r.tab, outcome, localStorage) IN
  /\ r \in reads /\ r.pc = "request"
  /\ reads' = (reads \ {r}) \cup
                {[r EXCEPT !.pc = "response", !.path = outcome, !.listing = listing]}
  /\ latestRead' = IF r.seq = started[r.tab]
                     THEN [latestRead EXCEPT ![r.tab] = listing] ELSE latestRead
  /\ UNCHANGED <<storage, curation, announcing, auditioning, localStorage, performances,
                 votingFor, message, messageTimer, now, calls, started, loading,
                 failed, bell>>

\* has_voted of the rows a read brought, from the local list as it is when the
\* answer is processed
WithHasVoted(listing, voted) ==
  [i \in DOMAIN listing |-> [listing[i] EXCEPT !.has_voted = listing[i].id \in voted]]

\* the answer of a read is processed: setPerformances and setLoading(false); the
\* fallback path leaves has_voted false
CompleteRead(r) ==
  /\ r \in reads /\ r.pc = "response"
  /\ performances' = [performances EXCEPT ![r.tab] =
       IF r.path = "primary"
         THEN WithHasVoted(r.listing, getVotedPerformances(localStorage, TabDevice(r.tab)))
         ELSE r.listing]
  /\ reads' = reads \ {r}
  /\ loading' = [loading EXCEPT ![r.tab] = FALSE]
  /\ UNCHANGED <<storage, curation, announcing, auditioning, localStorage,
                 votingFor, message, messageTimer, now, calls, started, latestRead,
                 failed, bell>>

\* handleVote after its await, the fetchPerformances() of the success branch
\* started and not awaited
HandleVoteResponseThenRead(c) ==
  LET t == c.tab IN
  /\ BagIn(c, calls) /\ c.pc = "response"
  /\ message' = [message EXCEPT ![t] = VoteMessage(c.error)]
  /\ localStorage' = IF MarksVoted(c.error)
                       THEN markAsVoted(localStorage, TabDevice(t), c.performance_id)
                       ELSE localStorage
  /\ IF c.error = NULL THEN startRead(t) ELSE UNCHANGED reading
  /\ votingFor' = [votingFor EXCEPT ![t] = NO_PERFORMANCE]
  /\ messageTimer' = [messageTimer EXCEPT ![t] = TRUE]
  /\ calls' = calls (-) SetToBag({c})
  /\ UNCHANGED <<storage, curation, announcing, auditioning, performances, now, failed, bell>>

\* a setTimeout(() => setMessage(null), 5000) of a finished handleVote fires;
\* it was the tab's last pending timer, or others remain
ClearMessage(t) ==
  /\ messageTimer[t]
  /\ message' = [message EXCEPT ![t] = NULL]
  /\ \E last \in BOOLEAN : messageTimer' = [messageTimer EXCEPT ![t] = ~last]
  /\ UNCHANGED <<storage, curation, announcing, auditioning, asyncSide, localStorage, performances, votingFor, now, calls>>

\* the clock of the browsers advances
Tick ==
  /\ now < MaxNow
  /\ now' = now + 1
  /\ UNCHANGED <<storage, curation, announcing, auditioning, asyncSide, localStorage, performances, votingFor, message, messageTimer, calls>>

\* ------------------------------------------------ admin curation (client)
AdminUid(a) == "admin1"

\* what fetchPerformances of the admin screen loads: every performance with
\* performance_votes(count)
AdminListing(perfs, votes, uid) ==
  [id \in {x \in DOMAIN perfs : perfs[x].is_active \/ IsAdmin(uid)} |->
     [is_active |-> perfs[id].is_active,
      category_id |-> perfs[id].category_id,
      performance_order |-> perfs[id].performance_order,
      vote_count |-> IF VotesAllowed("SELECT", uid)
                       THEN BagCardinality(VotesOf(votes, id)) ELSE 0]]

\* the rows the finalists screen keeps of a loaded listing: the columns its
\* handlers read (the count column is only displayed)
LoadedRows(listing) ==
  [id \in DOMAIN listing |->
     [is_active |-> listing[id].is_active,
      category_id |-> listing[id].category_id,
      performance_order |-> listing[id].performance_order]]

\* the rows of one category, in the order the query returned them
CategoryGroup(listing, cat) ==
  SelectSeq(OrderedBy(listing, DOMAIN listing), LAMBDA id : listing[id].category_id = cat)

\* the comparator reversed
CompareVotes_Reversed(a, b) == a.vote_count - b.vote_count

\* the comparator (a, b) => b.vote_count - a.vote_count
CompareVotes(a, b) == b.vote_count - a.vote_count

\* .sort(comparator): stable, so of the rows no other row sorts before, the one
\* that came first leads
RECURSIVE SortByVotes(_, _)
SortByVotes(seq, listing) ==
  IF seq = << >> THEN << >>
  ELSE LET First(k) == \A j \in 1..Len(seq) :
                          CompareVotes(listing[seq[k]], listing[seq[j]]) <= 0
           i == CHOOSE k \in 1..Len(seq) :
                   First(k) /\ \A j \in 1..(k - 1) : ~First(j)
       IN <<seq[i]>> \o SortByVotes(
            SubSeq(seq, 1, i - 1) \o SubSeq(seq, i + 1, Len(seq)), listing)

\* .slice(0, 1)
Slice01(seq) == SubSeq(seq, 1, IF Len(seq) < 1 THEN Len(seq) ELSE 1)

\* categoryPerformancesArray: per category of the listing, its rows sorted by
\* count and cut to the first
TopPerCategory(listing) ==
  [cat \in {listing[id].category_id : id \in DOMAIN listing} |->
     Slice01(SortByVotes(CategoryGroup(listing, cat), listing))]

\* fetchPerformances of the finalists screen, on the storage the step leaves
adminFetchPerformances(a) ==
  LET listing == AdminListing(final_performances', performance_votes', AdminUid(a)) IN
  /\ adminPerformances' = [adminPerformances EXCEPT ![a] = LoadedRows(listing)]
  /\ categoryPerformances' = [categoryPerformances EXCEPT ![a] = TopPerCategory(listing)]

\* the finalists screen (re)loads its listing
AdminFetchPerformances(a) ==
  /\ UNCHANGED <<storage, voterSide, announcing, auditioning, nextPerfId, selectedParticipants, adminError>>
  /\ adminFetchPerformances(a)

\* the candidates query: participants with .eq('status', 'selected'), each with
\* its category
SelectedCandidates(uid) ==
  [p \in {x \in SelectParticipants(uid) : participants[x].status = "selected"} |->
     participants[p].category_id]

\* fetchSelectedParticipants, which runs when the finalists screen mounts
FetchSelectedParticipants(a) ==
  /\ selectedParticipants' =
       [selectedParticipants EXCEPT ![a] = SelectedCandidates(AdminUid(a))]
  /\ UNCHANGED <<storage, voterSide, announcing, auditioning, nextPerfId, adminError>>
  /\ adminFetchPerformances(a)

\* the titles and orders an admin types into the add form
Titles == {"", "Finale"}
Orders == 1..(MaxPerf + MaxAdded)

FILL_REQUIRED == "Please fill all required fields"
PARTICIPANT_NOT_FOUND == "Selected participant not found"

\* the "Add Performance" button: the form opens and the banner is cleared
OpenAddModal(a) ==
  /\ adminError' = [adminError EXCEPT ![a] = NULL]
  /\ UNCHANGED <<storage, voterSide, announcing, auditioning, nextPerfId,
                 adminPerformances, categoryPerformances, selectedParticipants>>

\* the required fields validated without the title
RequiredFilled_ParticipantOnly(participantId, performanceTitle) == participantId # NULL

\* !(!addForm.participantId || !addForm.performanceTitle)
RequiredFilled(participantId, performanceTitle) ==
  participantId # NULL /\ performanceTitle # ""

\* handleAddPerformance: the required fields, the lookup in the loaded candidates,
\* the insert with the candidate's category, then the reload
HandleAddPerformance(a, participantId, performanceTitle, performanceOrder) ==
  /\ nextPerfId \in PerfIds
  /\ IF ~RequiredFilled(participantId, performanceTitle)
       THEN /\ adminError' = [adminError EXCEPT ![a] = FILL_REQUIRED]
            /\ UNCHANGED <<storage, nextPerfId, adminPerformances, categoryPerformances,
                           selectedParticipants>>
       ELSE IF participantId \notin DOMAIN selectedParticipants[a]
         THEN /\ adminError' = [adminError EXCEPT ![a] = PARTICIPANT_NOT_FOUND]
              /\ UNCHANGED <<storage, nextPerfId, adminPerformances, categoryPerformances,
                             selectedParticipants>>
         ELSE /\ final_performances' = final_performances @@
                   (nextPerfId :> [participant_id |-> participantId,
                                   category_id |-> selectedParticipants[a][participantId],
                                   performance_order |-> performanceOrder,
                                   is_active |-> TRUE])
              /\ nextPerfId' = nextPerfId + 1
              /\ adminError' = [adminError EXCEPT ![a] = NULL]
              /\ UNCHANGED <<performance_votes, otherTables, selectedParticipants>>
              /\ adminFetchPerformances(a)
  /\ UNCHANGED <<voterSide, announcing, auditioning>>

\* the values of participants.status
Statuses == {"pending", "audition_scheduled", "selected", "not_selected"}

\* the trigger function without its comparison of NEW.status with OLD.status
notify_status_change_Always(notifs, old, new, id) ==
  InsertNotifications(notifs, {id}, "status_change", NO_RELATED)

\* trigger notify_status_change, AFTER UPDATE ON participants FOR EACH ROW
notify_status_change(notifs, old, new, id) ==
  IF new.status # old.status
    THEN InsertNotifications(notifs, {id}, "status_change", NO_RELATED)
    ELSE notifs

\* the status_change rows of the notifications
StatusChanges(notifs) ==
  LET rows == {n \in BagToSet(notifs) : n.type = "status_change"} IN
  [n \in rows |-> CopiesIn(n, notifs)]

\* updateParticipantStatus(participantId, newStatus) of the participants screen:
\* the update of the row and the trigger it fires
UpdateParticipantStatus(a, participantId, newStatus) ==
  LET old == participants[participantId]
      new == [old EXCEPT !.status = newStatus] IN
  /\ IsAdmin(AdminUid(a))
  /\ BagCardinality(StatusChanges(notifications)) < MaxNotified
  /\ participants' = [participants EXCEPT ![participantId] = new]
  /\ notifications' = notify_status_change(notifications, old, new, participantId)
  /\ UNCHANGED <<final_performances, performance_votes, auditions, announcements,
                 voterSide, curation, announcing, auditioning>>

\* ------------------------------------------------ policies on notifications
NotificationsPolicies ==
  {"Participants can view own notifications", "Participants can update own notifications",
   "Admin can create notifications", "System can create notifications"}
NotificationPolicyCmd(pol) ==
  CASE pol = "Participants can view own notifications" -> "SELECT"
    [] pol = "Participants can update own notifications" -> "UPDATE"
    [] OTHER -> "INSERT"
NotificationPolicyRoles(pol) ==
  IF pol = "System can create notifications" THEN {"anon"} ELSE {"authenticated"}
\* USING / WITH CHECK of a policy for a caller and the row's participant_id
NotificationPolicyCheck(pol, uid, participant_id) ==
  CASE pol = "System can create notifications" -> TRUE
    [] pol = "Admin can create notifications" -> IsAdmin(uid)
    [] OTHER -> participant_id = uid
NotificationsAllowed(cmd, uid, participant_id) ==
  \E pol \in NotificationsPolicies :
     /\ NotificationPolicyCmd(pol) = cmd
     /\ RoleOf(uid) \in NotificationPolicyRoles(pol)
     /\ NotificationPolicyCheck(pol, uid, participant_id)

\* the values of notifications.type
NotificationTypes == {"announcement", "status_change", "audition_scheduled", "audition_result"}

\* a caller inserts a notification row through the API
InsertNotification(uid, participant_id, type) ==
  /\ NotificationsAllowed("INSERT", uid, participant_id)
  /\ BagCardinality(notifications) < BagCardinality(InitNotifications) + MaxDirect
  /\ notifications' = InsertNotifications(notifications, {participant_id}, type, NO_RELATED)
  /\ UNCHANGED <<final_performances, performance_votes, participants, auditions,
                 announcements, voterSide, curation, announcing, auditioning>>

\* ------------------------------------------ announcements screen (client)
Categories == {"Solo Singing", "Solo Dancing"}
AnnouncementIds == 1..(1 + MaxAnnounced)

\* the participants the trigger's SELECT returns for a new announcement: all of
\* them without a category, the ones of the category otherwise
Notified(uid, new) ==
  {p \in SelectParticipants(uid) :
     new.category_id = NULL \/ participants[p].category_id = new.category_id}

\* trigger notify_new_announcement, AFTER INSERT ON announcements FOR EACH ROW
notify_new_announcement(notifs, uid, id, new) ==
  IF new.is_active
    THEN InsertNotifications(notifs, Notified(uid, new), "announcement", id)
    ELSE notifs

\* what fetchAnnouncements loads (policy "Anyone can view active announcements")
SelectAnnouncements(rows, uid) ==
  [id \in {x \in DOMAIN rows : rows[x].is_active \/ IsAdmin(uid)} |-> rows[id]]

\* fetchAnnouncements, on the storage the step leaves
fetchAnnouncements(a) ==
  adminAnnouncements' =
    [adminAnnouncements EXCEPT ![a] = SelectAnnouncements(announcements', AdminUid(a))]

\* the announcements screen (re)loads its list
FetchAnnouncements(a) ==
  /\ UNCHANGED <<storage, voterSide, curation, auditioning, nextAnnouncementId>>
  /\ fetchAnnouncements(a)

\* handleSubmit: the required fields, then the update of the row being edited or
\* the insert of a new row with the trigger it fires, then the reload
HandleSubmit(a, editingId, filled, category_id, is_active) ==
  LET new == [category_id |-> category_id, is_active |-> is_active] IN
  /\ IF ~filled
       THEN UNCHANGED <<announcements, notifications, announcing>>
       ELSE IF editingId # NO_ANNOUNCEMENT
         THEN /\ editingId \in DOMAIN adminAnnouncements[a]
              /\ announcements' =
                   [id \in DOMAIN announcements |->
                      IF id = editingId THEN new ELSE announcements[id]]
              /\ UNCHANGED <<notifications, nextAnnouncementId>>
              /\ fetchAnnouncements(a)
         ELSE /\ nextAnnouncementId \in AnnouncementIds
              /\ announcements' = announcements @@ (nextAnnouncementId :> new)
              /\ notifications' = notify_new_announcement(
                   notifications, AdminUid(a), nextAnnouncementId, new)
              /\ nextAnnouncementId' = nextAnnouncementId + 1
              /\ fetchAnnouncements(a)
  /\ UNCHANGED <<final_performances, performance_votes, participants, auditions,
                 voterSide, curation, auditioning>>

\* toggleActive(id, currentStatus) from a row of the loaded list, then the reload
ToggleActive(a, id) ==
  /\ id \in DOMAIN adminAnnouncements[a]
  /\ announcements' =
       [x \in DOMAIN announcements |->
          IF x = id
            THEN [announcements[x] EXCEPT !.is_active = ~adminAnnouncements[a][id].is_active]
            ELSE announcements[x]]
  /\ fetchAnnouncements(a)
  /\ UNCHANGED <<final_performances, performance_votes, participants, auditions,
                 notifications, voterSide, curation, auditioning, nextAnnouncementId>>

\* handleDelete(id): confirm answers, then the delete and the reload
HandleDelete(a, id, confirmed) ==
  /\ id \in DOMAIN adminAnnouncements[a]
  /\ IF confirmed
       THEN /\ announcements' = [x \in DOMAIN announcements \ {id} |-> announcements[x]]
            /\ fetchAnnouncements(a)
       ELSE UNCHANGED <<announcements, adminAnnouncements>>
  /\ UNCHANGED <<final_performances, performance_votes, participants, auditions,
                 notifications, voterSide, curation, auditioning, nextAnnouncementId>>

\* ---------------------------------------------- auditions screen (client)
FILL_ALL_FIELDS == "Please fill all fields"
SCHEDULE_FAILED == "Failed to schedule audition"
UPDATE_FAILED == "Failed to update audition"
DELETE_FAILED == "Failed to delete audition"

\* the values of auditions.result
Results == {"pending", "qualified", "not_qualified"}
AuditionIds == 1..(Cardinality(DOMAIN InitAuditions) + MaxScheduled)

\* trigger notify_audition_scheduled, AFTER INSERT ON auditions FOR EACH ROW
notify_audition_scheduled(notifs, id, new) ==
  IF new.scheduled
    THEN InsertNotifications(notifs, {new.participant_id}, "audition_scheduled", id)
    ELSE notifs

\* trigger notify_audition_result, AFTER UPDATE ON auditions FOR EACH ROW
notify_audition_result(notifs, id, old, new) ==
  IF new.result # old.result /\ new.result # "pending"
    THEN InsertNotifications(notifs, {new.participant_id}, "audition_result", id)
    ELSE notifs

\* the notifications table has room for k more rows
NotificationsRoom(k) ==
  BagCardinality(notifications) + k <= BagCardinality(InitNotifications) + MaxAuditionNotified

\* fetchAuditions, on the storage the step leaves
fetchAuditions(a) ==
  adminAuditions' = [adminAuditions EXCEPT ![a] = auditions']

\* the auditions screen (re)loads its list
FetchAuditions(a) ==
  /\ UNCHANGED <<storage, voterSide, curation, announcing, nextAuditionId, auditionError>>
  /\ fetchAuditions(a)

\* UPDATE participants SET status = ... WHERE id = ..., with the trigger it fires,
\* sent after another request of the same handler left the notifications notifs;
\* the handler does not look at its outcome
updateStatusUnchecked(notifs, participantId, newStatus, fails) ==
  LET old == participants[participantId]
      new == [old EXCEPT !.status = newStatus] IN
  IF fails
    THEN /\ participants' = participants
         /\ notifications' = notifs
    ELSE /\ participants' = [participants EXCEPT ![participantId] = new]
         /\ notifications' = notify_status_change(notifs, old, new, participantId)

\* handleScheduleAudition: the required fields, the insert of the audition with
\* the trigger it fires, the update of the participant's status, the reloads
HandleScheduleAudition(a, participantId, filled, insertFails, statusFails) ==
  LET new == [participant_id |-> participantId, scheduled |-> TRUE, result |-> "pending"] IN
  /\ nextAuditionId \in AuditionIds
  /\ NotificationsRoom(2)
  /\ IF ~filled
       THEN /\ auditionError' = [auditionError EXCEPT ![a] = FILL_ALL_FIELDS]
            /\ UNCHANGED <<auditions, participants, notifications, nextAuditionId, adminAuditions>>
       ELSE IF insertFails
         THEN /\ auditionError' = [auditionError EXCEPT ![a] = SCHEDULE_FAILED]
              /\ UNCHANGED <<auditions, participants, notifications, nextAuditionId,
                             adminAuditions>>
         ELSE /\ auditions' = auditions @@ (nextAuditionId :> new)
              /\ nextAuditionId' = nextAuditionId + 1
              /\ updateStatusUnchecked(
                   notify_audition_scheduled(notifications, nextAuditionId, new),
                   participantId, "audition_scheduled", statusFails)
              /\ auditionError' = [auditionError EXCEPT ![a] = NULL]
              /\ fetchAuditions(a)
  /\ UNCHANGED <<final_performances, performance_votes, announcements,
                 voterSide, curation, announcing>>

\* the status handleSaveEdit derives from the result in the edit form
StatusForResult(result) ==
  IF result = "qualified" THEN "selected"
  ELSE IF result = "not_qualified" THEN "not_selected"
  ELSE "audition_scheduled"

\* handleSaveEdit on the audition startEdit opened (one with a scheduled date): the
\* required fields, the update of the audition with the trigger it fires, the
\* update of the participant's status, the reload
HandleSaveEdit(a, editingId, filled, result, updateFails, statusFails) ==
  /\ editingId \in DOMAIN adminAuditions[a]
  /\ adminAuditions[a][editingId].scheduled
  /\ NotificationsRoom(2)
  /\ IF ~filled
       THEN /\ auditionError' = [auditionError EXCEPT ![a] = FILL_ALL_FIELDS]
            /\ UNCHANGED <<auditions, participants, notifications, adminAuditions>>
       ELSE IF updateFails
         THEN /\ auditionError' = [auditionError EXCEPT ![a] = UPDATE_FAILED]
              /\ UNCHANGED <<auditions, participants, notifications, adminAuditions>>
         ELSE /\ auditions' =
                   [id \in DOMAIN auditions |->
                      IF id = editingId THEN [auditions[id] EXCEPT !.result = result]
                                        ELSE auditions[id]]
              /\ updateStatusUnchecked(
                   IF editingId \in DOMAIN auditions
                     THEN notify_audition_result(notifications, editingId,
                            auditions[editingId], auditions'[editingId])
                     ELSE notifications,
                   adminAuditions[a][editingId].participant_id,
                   StatusForResult(result), statusFails)
              /\ auditionError' = [auditionError EXCEPT ![a] = NULL]
              /\ fetchAuditions(a)
  /\ UNCHANGED <<final_performances, performance_votes, announcements,
                 voterSide, curation, announcing, nextAuditionId>>

\* handleDeleteAudition(auditionId): window.confirm answers, then the delete and
\* the reload
HandleDeleteAudition(a, auditionId, confirmed, deleteFails) ==
  /\ auditionId \in DOMAIN adminAuditions[a]
  /\ IF ~confirmed
       THEN UNCHANGED <<auditions, adminAuditions, auditionError>>
       ELSE IF deleteFails
         THEN /\ auditionError' = [auditionError EXCEPT ![a] = DELETE_FAILED]
              /\ UNCHANGED <<auditions, adminAuditions>>
         ELSE /\ auditions' = [id \in DOMAIN auditions \ {auditionId} |-> auditions[id]]
              /\ fetchAuditions(a)
              /\ UNCHANGED auditionError
  /\ UNCHANGED <<final_performances, performance_votes, participants, announcements,
                 notifications, voterSide, curation, announcing, nextAuditionId>>

\* ------------------------------------------------ finalists screen, continued
\* the update without its .eq('id', performanceId)
UpdateIsActive_AllRows(perfs, id, value) ==
  [x \in DOMAIN perfs |-> [perfs[x] EXCEPT !.is_active = value]]

\* UPDATE final_performances SET is_active = ... WHERE id = ...
UpdateIsActive(perfs, id, value) ==
  [x \in DOMAIN perfs |-> IF x = id THEN [perfs[x] EXCEPT !.is_active = value] ELSE perfs[x]]

\* togglePerformanceStatus(performanceId, currentStatus): the update it sends
togglePerformanceStatus(id, currentStatus) ==
  /\ final_performances' = UpdateIsActive(final_performances, id, ~currentStatus)
  /\ UNCHANGED <<performance_votes, otherTables>>

\* the toggle button of a row of the loaded list, and the reload that follows
TogglePerformanceStatus(a, id) ==
  /\ id \in DOMAIN adminPerformances[a]
  /\ togglePerformanceStatus(id, adminPerformances[a][id].is_active)
  /\ adminFetchPerformances(a)
  /\ UNCHANGED <<voterSide, announcing, auditioning, nextPerfId, selectedParticipants, adminError>>

\* DELETE FROM final_performances WHERE id = ...
DeletePerformance(perfs, id) == [x \in DOMAIN perfs \ {id} |-> perfs[x]]

\* the delete sent whatever window.confirm answers
handleDeletePerformance_NoConfirm(id, confirmed) ==
  /\ final_performances' = DeletePerformance(final_performances, id)
  /\ performance_votes' = CascadeVotes(performance_votes, id)
  /\ UNCHANGED otherTables

\* handleDeletePerformance(performanceId): window.confirm answers, then the delete
\* with its cascade to the votes
handleDeletePerformance(id, confirmed) ==
  /\ IF confirmed
       THEN /\ final_performances' = DeletePerformance(final_performances, id)
            /\ performance_votes' = CascadeVotes(performance_votes, id)
       ELSE UNCHANGED <<final_performances, performance_votes>>
  /\ UNCHANGED otherTables

\* the delete button of a row of the loaded list; a confirmed delete is followed
\* by the reload
HandleDeletePerformance(a, id, confirmed) ==
  /\ id \in DOMAIN adminPerformances[a]
  /\ handleDeletePerformance(id, confirmed)
  /\ IF confirmed THEN adminFetchPerformances(a)
                  ELSE UNCHANGED <<adminPerformances, categoryPerformances>>
  /\ UNCHANGED <<voterSide, announcing, auditioning, nextPerfId, selectedParticipants, adminError>>


\* ------------------------------------------------ notification bell (client)
\* the ids of the rows of notifications
NotificationIds(notifs) == {n.id : n \in BagToSet(notifs)}

\* the participant whose dashboard shows the bell
BellUser == "p1"

\* notifications rows a caller may read (policy "Participants can view own
\* notifications")
SelectNotifications(uid) ==
  {n \in BagToSet(notifications) : NotificationsAllowed("SELECT", uid, n.participant_id)}

\* rows in the order of .order('created_at', { ascending: false }), as the
\* entries the bell keeps
NewestFirst(rows) ==
  LET entries == {[id |-> n.id, is_read |-> n.is_read] : n \in rows}
      k == Cardinality(entries) IN
  CHOOSE s \in [1..k -> entries] : \A i, j \in 1..k : i < j => s[i].id > s[j].id

\* UPDATE notifications SET is_read = true WHERE id IN ids, under the policy
\* "Participants can update own notifications"
UpdateIsRead(notifs, uid, ids) ==
  SetToBag({IF n.id \in ids /\ NotificationsAllowed("UPDATE", uid, n.participant_id)
              THEN [n EXCEPT !.is_read = TRUE] ELSE n : n \in BagToSet(notifs)})

BellCall(op, ids) == [op |-> op, ids |-> ids, pc |-> "request", failed |-> FALSE, data |-> << >>]

\* the effect of the bell runs: fetchNotifications is sent and the channel is
\* subscribed
BellMount ==
  /\ ~mounted
  /\ mounted' = TRUE
  /\ bellCalls' = bellCalls (+) SetToBag({BellCall("fetch", {})})
  /\ realtimeSeen' = NotificationIds(notifications)
  /\ UNCHANGED <<storage, curation, announcing, auditioning, localStorage, performances,
                 votingFor, message, messageTimer, now, calls, reading, failed,
                 bellNotifications, unreadCount>>

\* the select of fetchNotifications reaches storage
ServeFetchNotifications(c) ==
  /\ BagIn(c, bellCalls) /\ c.pc = "request" /\ c.op = "fetch"
  /\ bellCalls' = (bellCalls (-) SetToBag({c})) (+) SetToBag({
       [c EXCEPT !.pc = "response",
                 !.data = NewestFirst({n \in SelectNotifications(BellUser) :
                                          n.participant_id = BellUser})]})
  /\ UNCHANGED <<storage, curation, announcing, auditioning, localStorage, performances,
                 votingFor, message, messageTimer, now, calls, reading, failed,
                 mounted, bellNotifications, unreadCount, realtimeSeen>>

\* the update of markAsRead or markAllAsRead reaches storage, or the request fails
ServeMarkRead(c, fails) ==
  /\ BagIn(c, bellCalls) /\ c.pc = "request" /\ c.op # "fetch"
  /\ notifications' = IF fails THEN notifications
                      ELSE UpdateIsRead(notifications, BellUser, c.ids)
  /\ bellCalls' = (bellCalls (-) SetToBag({c})) (+)
                     SetToBag({[c EXCEPT !.pc = "response", !.failed = fails]})
  /\ UNCHANGED <<final_performances, performance_votes, participants, auditions, announcements,
                 curation, announcing, auditioning, localStorage, performances,
                 votingFor, message, messageTimer, now, calls, reading, failed,
                 mounted, bellNotifications, unreadCount, realtimeSeen>>

UnreadIn(list) == {i \in DOMAIN list : ~list[i].is_read}

\* the rest of fetchNotifications, markAsRead or markAllAsRead after its await;
\* markAsRead sets the badge to Math.max(0, prev - 1)
CompleteBellCall(c) ==
  /\ BagIn(c, bellCalls) /\ c.pc = "response"
  /\ bellCalls' = bellCalls (-) SetToBag({c})
  /\ CASE c.failed ->
            UNCHANGED <<bellNotifications, unreadCount>>
       [] ~c.failed /\ c.op = "fetch" ->
            /\ bellNotifications' = c.data
            /\ unreadCount' = Cardinality(UnreadIn(c.data))
       [] ~c.failed /\ c.op = "markAsRead" ->
            /\ bellNotifications' =
                 [i \in DOMAIN bellNotifications |->
                    IF bellNotifications[i].id \in c.ids
                      THEN [bellNotifications[i] EXCEPT !.is_read = TRUE]
                      ELSE bellNotifications[i]]
            /\ unreadCount' = IF unreadCount - 1 > 0 THEN unreadCount - 1 ELSE 0
       [] ~c.failed /\ c.op = "markAllAsRead" ->
            /\ bellNotifications' =
                 [i \in DOMAIN bellNotifications |->
                    [bellNotifications[i] EXCEPT !.is_read = TRUE]]
            /\ unreadCount' = 0
  /\ UNCHANGED <<storage, curation, announcing, auditioning, localStorage, performances,
                 votingFor, message, messageTimer, now, calls, reading, failed,
                 mounted, realtimeSeen>>

\* a click on an unread entry of the dropdown: markAsRead up to its await
MarkAsRead(i) ==
  /\ i \in DOMAIN bellNotifications
  /\ ~bellNotifications[i].is_read
  /\ BagCardinality(bellCalls) < MaxBellCalls
  /\ bellCalls' = bellCalls (+) SetToBag({BellCall("markAsRead", {bellNotifications[i].id})})
  /\ UNCHANGED <<storage, curation, announcing, auditioning, localStorage, performances,
                 votingFor, message, messageTimer, now, calls, reading, failed,
                 mounted, bellNotifications, unreadCount, realtimeSeen>>

\* a click on "Mark all read", shown while unreadCount > 0: markAllAsRead up to
\* its await; without unread entries nothing is sent
MarkAllAsRead ==
  LET unreadIds == {bellNotifications[i].id : i \in UnreadIn(bellNotifications)} IN
  /\ unreadCount > 0
  /\ BagCardinality(bellCalls) < MaxBellCalls
  /\ bellCalls' = IF unreadIds # {}
                    THEN bellCalls (+) SetToBag({BellCall("markAllAsRead", unreadIds)})
                    ELSE bellCalls
  /\ UNCHANGED <<storage, curation, announcing, auditioning, localStorage, performances,
                 votingFor, message, messageTimer, now, calls, reading, failed,
                 mounted, bellNotifications, unreadCount, realtimeSeen>>

\* the channel delivers the INSERT of a row of the participant: the callback
\* puts it in front of the list and adds one to the badge
RealtimeInsert(n) ==
  /\ mounted
  /\ n \in BagToSet(notifications)
  /\ n.participant_id = BellUser
  /\ n.id \notin realtimeSeen
  /\ realtimeSeen' = realtimeSeen \cup {n.id}
  /\ bellNotifications' = <<[id |-> n.id, is_read |-> FALSE]>> \o bellNotifications
  /\ unreadCount' = unreadCount + 1
  /\ UNCHANGED <<storage, curation, announcing, auditioning, localStorage, performances,
                 votingFor, message, messageTimer, now, calls, reading, failed,
                 mounted, bellCalls>>

\* ------------------------------------------------------------- initial state
\* the finalists the admin has set up: performance k was added k-th with the
\* add form's default order, for a selected participant, and is active
InitPerformances ==
  [id \in InitPerfIds |->
     LET pid == IF id = 2 THEN "p2" ELSE "p1" IN
     [participant_id |-> pid, category_id |-> InitParticipants[pid].category_id,
      performance_order |-> id, is_active |-> TRUE]]

Init ==
  /\ final_performances = InitPerformances
  /\ performance_votes = EmptyBag
  /\ participants = InitParticipants
  /\ auditions = InitAuditions
  /\ announcements = InitAnnouncements
  /\ notifications = InitNotifications
  /\ nextPerfId = MaxPerf + 1
  /\ adminPerformances =
       [a \in BothSessions |-> LoadedRows(AdminListing(InitPerformances, EmptyBag, AdminUid(a)))]
  /\ categoryPerformances =
       [a \in BothSessions |-> TopPerCategory(AdminListing(InitPerformances, EmptyBag, AdminUid(a)))]
  /\ selectedParticipants =
       [a \in BothSessions |->
          [p \in {x \in ParticipantIds : InitParticipants[x].status = "selected"} |->
             InitParticipants[p].category_id]]
  /\ adminError = [a \in BothSessions |-> NULL]
  /\ nextAnnouncementId = 2
  /\ adminAnnouncements = [a \in BothSessions |-> InitAnnouncements]
  /\ nextAuditionId = Cardinality(DOMAIN InitAuditions) + 1
  /\ adminAuditions = [a \in BothSessions |-> InitAuditions]
  /\ auditionError = [a \in BothSessions |-> NULL]
  /\ localStorage = [d \in Devices |-> [voter_id |-> NULL, voted_performances |-> {}]]
  /\ performances = [t \in Tabs |-> << >>]
  /\ votingFor = [t \in Tabs |-> NO_PERFORMANCE]
  /\ message = [t \in Tabs |-> NULL]
  /\ messageTimer = [t \in Tabs |-> FALSE]
  /\ now = 0
  /\ calls = EmptyBag
  /\ reads = {}
  /\ started = [t \in Tabs |-> 0]
  /\ latestRead = [t \in Tabs |-> << >>]
  /\ loading = [t \in Tabs |-> FALSE]
  /\ failed = {}
  /\ mounted = FALSE
  /\ bellNotifications = << >>
  /\ unreadCount = 0
  /\ bellCalls = EmptyBag
  /\ realtimeSeen = {}

\* -------------------------------------------------------------- specification
\* what the admin does to the finalists while the public votes
AdminNext ==
  \/ \E a \in AdminSessions, id \in PerfIds : TogglePerformanceStatus(a, id)
  \/ \E a \in AdminSessions, id \in PerfIds, confirmed \in BOOLEAN :
        HandleDeletePerformance(a, id, confirmed)

\* what the voting page does in the tabs ts, with at most limit requests in flight
VotingNext(ts, limit) ==
  \/ \E t \in ts : FetchPerformances(t)
  \/ \E t \in ts : FetchPerformancesFallback(t)
  \/ \E t \in ts, id \in PerfIds : HandleVote(t, id, limit)
  \/ \E c \in BagToSet(calls) : InsertVote(c)
  \/ \E c \in BagToSet(calls) : HandleVoteResponse(c)
  \/ \E t \in ts : ClearMessage(t)

\* two devices vote, one tab each
Next == VotingNext({"t1", "t3"}, MaxInFlight) \/ AdminNext
Spec == Init /\ [][Next]_vars

\* one device votes from two tabs
NextTabs == VotingNext({"t1", "t2"}, MaxRacing) \/ AdminNext
SpecTabs == Init /\ [][NextTabs]_vars

\* a browser with localStorage (t1) and one without (t4) vote
NextStorage == VotingNext({"t1", "t4"}, MaxInFlight) \/ Tick
SpecStorage == Init /\ [][NextStorage]_vars

\* the admin curates the finalists and decides on a participant while votes
\* arrive from browsers elsewhere
NextCuration ==
  \/ AdminNext
  \/ \E a \in AdminSessions : AdminFetchPerformances(a)
  \/ \E a \in AdminSessions : FetchSelectedParticipants(a)
  \/ \E a \in AdminSessions, p \in ParticipantIds, order \in Orders :
        HandleAddPerformance(a, p, "Finale", order)
  \/ \E a \in AdminSessions, status \in {"selected", "not_selected"} :
        UpdateParticipantStatus(a, "p1", status)
  \/ \E v \in Elsewhere, id \in PerfIds : VoteElsewhere(v, id)
SpecCuration == Init /\ [][NextCuration]_vars

\* the admin fills the add form in every way, between other uses of the finalists
\* screen
NextAdd ==
  \/ AdminNext
  \/ \E a \in AdminSessions : OpenAddModal(a)
  \/ \E a \in AdminSessions : FetchSelectedParticipants(a)
  \/ \E a \in AdminSessions, p \in ParticipantIds \cup {NULL}, title \in Titles,
        order \in Orders : HandleAddPerformance(a, p, title, order)
  \/ \E a \in AdminSessions, status \in {"selected", "not_selected"} :
        UpdateParticipantStatus(a, "p1", status)
SpecAdd == Init /\ [][NextAdd]_vars

\* two admins have the finalists screen open while votes arrive
NextToggle ==
  \/ \E a \in BothSessions : AdminFetchPerformances(a)
  \/ \E a \in BothSessions, id \in PerfIds : TogglePerformanceStatus(a, id)
  \/ \E a \in BothSessions, id \in PerfIds, confirmed \in BOOLEAN :
        HandleDeletePerformance(a, id, confirmed)
  \/ \E v \in Elsewhere, id \in PerfIds : VoteElsewhere(v, id)
SpecToggle == Init /\ [][NextToggle]_vars

\* the admin publishes announcements and decides on participants
NextNotify ==
  \/ \E a \in AdminSessions : FetchAnnouncements(a)
  \/ \E a \in AdminSessions, editingId \in AnnouncementIds \cup {NO_ANNOUNCEMENT}, filled \in BOOLEAN,
        category_id \in Categories \cup {NULL}, is_active \in BOOLEAN :
        HandleSubmit(a, editingId, filled, category_id, is_active)
  \/ \E a \in AdminSessions, id \in AnnouncementIds : ToggleActive(a, id)
  \/ \E a \in AdminSessions, id \in AnnouncementIds, confirmed \in BOOLEAN :
        HandleDelete(a, id, confirmed)
  \/ \E a \in AdminSessions, p \in ParticipantIds, status \in Statuses :
        UpdateParticipantStatus(a, p, status)
SpecNotify == Init /\ [][NextNotify]_vars

\* callers use the notifications API while the admin decides on participants
NextDirect ==
  \/ \E uid \in Callers, p \in ParticipantIds, type \in NotificationTypes :
        InsertNotification(uid, p, type)
  \/ \E a \in AdminSessions, p \in ParticipantIds, status \in Statuses :
        UpdateParticipantStatus(a, p, status)
SpecDirect == Init /\ [][NextDirect]_vars

\* the admin schedules, edits and deletes auditions and uses the status dropdown
NextAuditions ==
  \/ \E a \in AdminSessions : FetchAuditions(a)
  \/ \E a \in AdminSessions, p \in ParticipantIds, filled, insertFails, statusFails \in BOOLEAN :
        HandleScheduleAudition(a, p, filled, insertFails, statusFails)
  \/ \E a \in AdminSessions, id \in AuditionIds, result \in Results,
        filled, updateFails, statusFails \in BOOLEAN :
        HandleSaveEdit(a, id, filled, result, updateFails, statusFails)
  \/ \E a \in AdminSessions, id \in AuditionIds, confirmed, deleteFails \in BOOLEAN :
        HandleDeleteAudition(a, id, confirmed, deleteFails)
  \/ \E a \in AdminSessions, p \in ParticipantIds, status \in Statuses :
        UpdateParticipantStatus(a, p, status)
SpecAuditions == Init /\ [][NextAuditions]_vars

\* one device votes over a connection that loses requests, while the admin
\* hides and deletes performances
NextRetry ==
  \/ VotingNext({"t1"}, MaxInFlight)
  \/ AdminNext
  \/ \E c \in BagToSet(calls), err \in RequestFailures : FailVote(c, err)
  \/ \E v \in Elsewhere, id \in InitPerfIds : VoteElsewhere(v, id)
SpecRetry == Init /\ [][NextRetry]_vars

\* the bell of a participant while the admin decides on the participant
NextBell ==
  \/ BellMount
  \/ \E c \in BagToSet(bellCalls) : ServeFetchNotifications(c)
  \/ \E c \in BagToSet(bellCalls), fails \in BOOLEAN : ServeMarkRead(c, fails)
  \/ \E c \in BagToSet(bellCalls) : CompleteBellCall(c)
  \/ \E i \in DOMAIN bellNotifications : MarkAsRead(i)
  \/ MarkAllAsRead
  \/ \E n \in BagToSet(notifications) : RealtimeInsert(n)
  \/ \E a \in AdminSessions, status \in Statuses : UpdateParticipantStatus(a, BellUser, status)
SpecBell == Init /\ [][NextBell]_vars

\* the voting page of the admin's browser with its listing reads in flight,
\* and votes from elsewhere
ReadTabs == {"t5"}
NextReads ==
  \/ \E t \in ReadTabs : StartRead(t)
  \/ \E r \in reads, outcome \in {"primary", "fallback"} : ServeRead(r, outcome)
  \/ \E r \in reads : CompleteRead(r)
  \/ \E t \in ReadTabs, id \in PerfIds : HandleVote(t, id, MaxRacing)
  \/ \E c \in BagToSet(calls) : InsertVote(c)
  \/ \E c \in BagToSet(calls) : HandleVoteResponseThenRead(c)
  \/ \E v \in Elsewhere, id \in InitPerfIds : VoteElsewhere(v, id)
SpecReads == Init /\ [][NextReads]_vars

\* ------------------------------------------------------------------- claims
VoterOf(d) == localStorage[d].voter_id
VoteCount(id) == BagCardinality(VotesOf(performance_votes, id))
Responses == {c \in BagToSet(calls) : c.pc = "response"}
\* the answers storage has given for one (performance, voter) pair, still unread
ResponsesFor(id, voter) ==
  VotesOf([c \in {x \in Responses : x.voter_ip = voter} |-> calls[c]], id)
SuccessesFor(id, voter) ==
  [c \in {x \in DOMAIN ResponsesFor(id, voter) : x.error = NULL} |-> calls[c]]

\* C1: in every reachable state the vote store holds at most one row for each
\* (performance, voter identifier) pair.
C1_OneVotePerPair ==
  \A row \in BagToSet(performance_votes) : CopiesIn(row, performance_votes) = 1

\* a second insert for a stored pair has been rejected, and the pair has one row
C1_Witness ==
  \E c \in Responses :
     /\ c.error = "23505"
     /\ CopiesIn(VoteRow(c.performance_id, c.voter_ip), performance_votes) = 1

\* C2: when a device whose vote for a performance is stored and answered votes for
\* it again, the call is answered "already voted", no request is sent, and the
\* pair keeps its single row: the count has risen by one in total.
C2_SecondVoteRejected ==
  [][\A t \in Tabs, id \in PerfIds :
       LET d == TabDevice(t) IN
       ( /\ VoterOf(d) # NULL
         /\ BagIn(VoteRow(id, VoterOf(d)), performance_votes)
         /\ \A c \in BagToSet(calls) : ~(TabDevice(c.tab) = d /\ c.performance_id = id)
         /\ HandleVote(t, id, MaxInFlight) )
       => /\ message'[t] = ALREADY_VOTED
          /\ calls' = calls
          /\ performance_votes' = performance_votes
          /\ CopiesIn(VoteRow(id, VoterOf(d)), performance_votes') = 1
          /\ VoteCount(id)' = VoteCount(id)]_vars

\* a second call has been answered "already voted" and the pair has its one row
C2_Witness ==
  \E t \in Tabs, id \in PerfIds :
     /\ message[t] = ALREADY_VOTED
     /\ calls = EmptyBag
     /\ id \in getVotedPerformances(localStorage, TabDevice(t))
     /\ VoterOf(TabDevice(t)) # NULL
     /\ CopiesIn(VoteRow(id, VoterOf(TabDevice(t))), performance_votes) = 1
     /\ VoteCount(id) = 1

\* C3: of the vote attempts for one (performance, voter) pair that are in flight
\* together and reach storage while the performance exists, exactly one stores
\* the row and every other one is answered with the duplicate error, in whatever
\* order storage takes them.
C3_ExactlyOneWins ==
  \A c \in Responses :
     c.performance_id \in DOMAIN final_performances =>
       /\ c.error \in {NULL, "23505"}
       /\ CopiesIn(VoteRow(c.performance_id, c.voter_ip), performance_votes) = 1
       /\ BagCardinality(SuccessesFor(c.performance_id, c.voter_ip)) <= 1

\* two attempts for one pair have both reached storage: one stored the row, the
\* other got the duplicate error
C3_Witness ==
  \E c1, c2 \in Responses :
     /\ c1.performance_id = c2.performance_id /\ c1.voter_ip = c2.voter_ip
     /\ c1.tab # c2.tab
     /\ c1.error = NULL /\ c2.error = "23505"
     /\ c1.performance_id \in DOMAIN final_performances

\* C4: the vote count the voting page's read path reports to a public caller for
\* a performance equals the number of votes stored for it (N after N distinct
\* voters voted once each).
C4_ListingCountIsStoredCount ==
  [][\A t \in Tabs :
       FetchPerformances(t) =>
         \A i \in DOMAIN performances'[t] :
            performances'[t][i].vote_count = VoteCount(performances'[t][i].id)]_vars

\* C5: a successful vote insert for performance P adds one row for P and nothing
\* else: the aggregation shows P's count one higher, and the other counts, the
\* performance rows and the participant, audition, announcement and notification
\* rows stay as they were.
C5_InsertFrame ==
  [][\A c \in BagToSet(calls) :
       (performance_votes' # performance_votes /\ InsertVote(c)) =>
          LET P == c.performance_id IN
          /\ performance_votes' = performance_votes (+) SetToBag({VoteRow(P, c.voter_ip)})
          /\ P \in DOMAIN final_performances
          /\ performance_vote_counts'[P].vote_count = performance_vote_counts[P].vote_count + 1
          /\ \A q \in DOMAIN final_performances \ {P} :
                performance_vote_counts'[q] = performance_vote_counts[q]
          /\ final_performances' = final_performances
          /\ otherTables' = otherTables]_vars

\* a vote has just been stored for one performance while the other holds a vote too
C5_Witness ==
  \E c \in Responses :
     /\ c.error = NULL
     /\ BagIn(VoteRow(c.performance_id, c.voter_ip), performance_votes)
     /\ \E q \in DOMAIN final_performances \ {c.performance_id} : VoteCount(q) = 1

\* C6: a vote insert that reaches storage while the performance is inactive is
\* rejected and stores no row.
C6_InactiveRejected ==
  [][\A c \in BagToSet(calls) :
       ( /\ c.performance_id \in DOMAIN final_performances
         /\ ~final_performances[c.performance_id].is_active
         /\ InsertVote(c) )
       => /\ performance_votes' = performance_votes
          /\ calls' # Answered(calls, c, NULL)]_vars

\* C7: a vote insert for an id without a performance row stores nothing and is
\* answered with an error that is not the duplicate error; handleVote then shows
\* the generic failure and leaves the local voted list as it was.
C7_MissingPerformanceRejected ==
  [][\A c \in BagToSet(calls) :
       /\ (c.performance_id \notin DOMAIN final_performances /\ InsertVote(c))
            => /\ performance_votes' = performance_votes
               /\ calls' = Answered(calls, c, "23503")
       /\ (c.error = "23503" /\ HandleVoteResponse(c))
            => /\ message'[c.tab] = VOTE_FAILED
               /\ localStorage' = localStorage]_vars

\* a vote for a deleted performance has been answered with the generic failure
C7_Witness ==
  \E t \in Tabs, id \in PerfIds :
     /\ id \notin DOMAIN final_performances
     /\ message[t] = VOTE_FAILED
     /\ id \notin getVotedPerformances(localStorage, TabDevice(t))
     /\ VoteCount(id) = 0

\* C8: when storage answers a vote insert with the duplicate error, handleVote
\* shows "already voted" and puts the performance in the local voted list; a
\* vote attempt for a performance in that list is answered locally and sends no
\* insert.
C8_DuplicateRemembered ==
  [][/\ \A c \in BagToSet(calls) :
          (c.error = "23505" /\ HandleVoteResponse(c))
            => /\ message'[c.tab] = ALREADY_VOTED
               /\ c.performance_id \in getVotedPerformances(localStorage', TabDevice(c.tab))
     /\ \A t \in Tabs, id \in PerfIds :
          ( /\ id \in getVotedPerformances(localStorage, TabDevice(t))
            /\ HandleVote(t, id, MaxRacing) )
            => /\ message'[t] = ALREADY_VOTED
               /\ calls' = calls
               /\ performance_votes' = performance_votes]_vars

\* the duplicate answer has been handled in one tab while the answer to the insert
\* that stored the row is still unread in the other
C8_Witness ==
  \E t \in Tabs, c \in Responses :
     /\ c.tab # t /\ TabDevice(c.tab) = TabDevice(t)
     /\ c.error = NULL
     /\ message[t] = ALREADY_VOTED
     /\ votingFor[t] = NO_PERFORMANCE
     /\ c.performance_id \in getVotedPerformances(localStorage, TabDevice(t))

\* C9: a caller who is not an admin reads no row of performance_votes, however
\* many are stored; an admin reads them all; what the public reads (the view
\* performance_vote_counts and the listing) has no voter field.
C9_VoterPrivacy ==
  /\ \A uid \in Callers \ AdminIds : SelectPerformanceVotes(uid) = EmptyBag
  /\ \A uid \in AdminIds : SelectPerformanceVotes(uid) = performance_votes
  /\ \A id \in DOMAIN performance_vote_counts :
        "voter_ip" \notin DOMAIN performance_vote_counts[id]
  /\ \A t \in Tabs : \A i \in DOMAIN performances[t] :
        "voter_ip" \notin DOMAIN performances[t][i]

\* votes of two voters are stored and a participant's tab has loaded a listing
C9_Witness ==
  /\ BagCardinality(performance_votes) >= 2
  /\ \E t \in Tabs : DeviceUid(TabDevice(t)) \in ParticipantIds /\ performances[t] # << >>
  /\ \E t \in Tabs : DeviceUid(TabDevice(t)) = ANON /\ performances[t] # << >>

Ids(seq) == {seq[i] : i \in DOMAIN seq}
\* the entry a public caller's listing shows for a performance when it lists it
EntryIfListed(uid, id, voted) ==
  ListingEntry(id, final_performances[id].performance_order,
               BagCardinality(VotesOf(SelectPerformanceVotes(uid), id)), id \in voted)

\* C10: a toggle of is_active changes that flag and nothing else: the vote rows
\* and the performance's count stay. While inactive the performance is in no
\* public listing; once active again it is listed as before, with the entry
\* (count included) it had before it was deactivated.
C10_DeactivationKeepsVotes ==
  [][\A a \in AdminSessions, id \in PerfIds :
       (final_performances' # final_performances /\ TogglePerformanceStatus(a, id)) =>
         /\ performance_votes' = performance_votes
         /\ performance_vote_counts'[id].vote_count = performance_vote_counts[id].vote_count
         /\ final_performances' =
              [final_performances EXCEPT ![id].is_active = ~final_performances[id].is_active]
         /\ \A uid \in Callers \ AdminIds :
              /\ \A voted \in SUBSET PerfIds :
                   EntryIfListed(uid, id, voted)' = EntryIfListed(uid, id, voted)
              /\ (id \in Ids(SimpleQuery(uid)'))  = final_performances'[id].is_active
              /\ (id \in Ids(PrimaryQuery(uid)')) =
                   /\ final_performances'[id].is_active
                   /\ final_performances[id].participant_id \in SelectParticipants(uid)
              /\ Ids(SimpleQuery(uid)') \ {id} = Ids(SimpleQuery(uid)) \ {id}
              /\ Ids(PrimaryQuery(uid)') \ {id} = Ids(PrimaryQuery(uid)) \ {id}]_vars

\* a performance with a stored vote is inactive, and an anonymous visitor's
\* listing, loaded since, shows the other performance only
C10_Witness ==
  \E id \in DOMAIN final_performances, t \in Tabs :
     /\ ~final_performances[id].is_active /\ VoteCount(id) = 1
     /\ DeviceUid(TabDevice(t)) = ANON
     /\ ListingIds(t) = DOMAIN final_performances \ {id}
     /\ ListingIds(t) # {}

\* C11: every stored vote row references an existing performance, so after a
\* performance is deleted none of its votes remain; the view
\* performance_vote_counts has no row for an id without a performance.
C11_DeleteCascades ==
  /\ \A row \in BagToSet(performance_votes) :
        row.performance_id \in DOMAIN final_performances
  /\ \A id \in PerfIds \ DOMAIN final_performances :
        /\ VoteCount(id) = 0
        /\ id \notin DOMAIN performance_vote_counts

\* a performance a device had voted for has been deleted
C11_Witness ==
  \E id \in PerfIds \ DOMAIN final_performances, d \in Devices :
     /\ id \in getVotedPerformances(localStorage, d)
     /\ BagCardinality(performance_votes) >= 1

\* C12: when the admin declines the confirmation of a delete, no delete is sent:
\* the performance rows and the vote rows stay as they were.
C12_DeclinedDeleteChangesNothing ==
  [][\A a \in AdminSessions, id \in PerfIds :
       HandleDeletePerformance(a, id, FALSE) =>
         /\ final_performances' = final_performances
         /\ performance_votes' = performance_votes]_vars

\* the admin's list shows a performance that has a vote: the delete button can
\* be pressed and the confirmation declined
C12_Witness ==
  \E a \in AdminSessions :
     \E id \in DOMAIN AdminListing(final_performances, performance_votes, AdminUid(a)) :
        VoteCount(id) = 1

\* the active performances in display order
ActiveInOrder ==
  OrderedBy(final_performances,
            {id \in DOMAIN final_performances : final_performances[id].is_active})
ListedIds(listing) == [i \in DOMAIN listing |-> listing[i].id]

\* C13: the listing fetchPerformances loads, on the primary and on the fallback
\* path, holds exactly the performances that are active at read time, each once,
\* in display order.
C13_ListingIsActiveInOrder ==
  [][\A t \in Tabs :
       (FetchPerformances(t) \/ FetchPerformancesFallback(t)) =>
          ListedIds(performances'[t]) = ActiveInOrder]_vars

\* C14: in the listing fetchPerformances loads, on either path, has_voted of an
\* entry is true exactly when its id is in the device's local voted list.
C14_HasVotedIsLocalList ==
  [][\A t \in Tabs :
       (FetchPerformances(t) \/ FetchPerformancesFallback(t)) =>
          \A i \in DOMAIN performances'[t] :
             performances'[t][i].has_voted =
               (performances'[t][i].id \in getVotedPerformances(localStorage, TabDevice(t)))]_vars

\* C18: votes are append-only: in every step each stored vote row of a
\* performance that still exists afterwards is kept, and the count of such a
\* performance does not decrease.
C18_VotesAppendOnly ==
  [][\A id \in DOMAIN final_performances \cap DOMAIN final_performances' :
       /\ \A row \in BagToSet(VotesOf(performance_votes, id)) :
             CopiesIn(row, performance_votes') >= CopiesIn(row, performance_votes)
       /\ performance_vote_counts'[id].vote_count >= performance_vote_counts[id].vote_count]_vars

\* one performance has been deleted and the other still has its vote
C18_Witness ==
  \E id \in DOMAIN final_performances :
     /\ VoteCount(id) = 1
     /\ InitPerfIds \ DOMAIN final_performances # {}
     /\ \E d \in Devices : getVotedPerformances(localStorage, d) = InitPerfIds

\* C17: the voter identifier of a device is generated on its first vote attempt
\* and persisted: every vote attempt of the device sends the identifier kept in
\* its localStorage, and a stored identifier never changes.
C17_VoterIdPersisted ==
  [][/\ \A d \in Devices :
          localStorage[d].voter_id # NULL => localStorage'[d].voter_id = localStorage[d].voter_id
     /\ \A c \in BagToSet(calls') :
          CopiesIn(c, calls') > CopiesIn(c, calls) =>
             c.voter_ip = localStorage'[TabDevice(c.tab)].voter_id]_vars

\* C15: each time the finalists screen loads its listing, its "most popular per
\* category" view holds, for every category that has a performance, exactly one
\* performance of that category, and no performance of the category has more
\* votes than it.
C15_TopPerCategory ==
  [][\A a \in AdminSessions :
       (\/ adminPerformances'[a] # adminPerformances[a]
        \/ categoryPerformances'[a] # categoryPerformances[a]
        \/ AdminFetchPerformances(a)
        \/ FetchSelectedParticipants(a)) =>
          LET shown == categoryPerformances'[a]
              stored == final_performances' IN
          /\ DOMAIN shown = {stored[id].category_id : id \in DOMAIN stored}
          /\ \A cat \in DOMAIN shown :
               /\ Len(shown[cat]) = 1
               /\ shown[cat][1] \in DOMAIN stored
               /\ stored[shown[cat][1]].category_id = cat
               /\ \A id \in DOMAIN stored :
                    stored[id].category_id = cat =>
                       BagCardinality(VotesOf(performance_votes', shown[cat][1])) >=
                          BagCardinality(VotesOf(performance_votes', id))]_vars

\* a category with two performances shows the one with two votes, which comes
\* later in the listing than the one with one vote
C15_Witness ==
  \E a \in AdminSessions, id, other \in DOMAIN final_performances :
     /\ id # other
     /\ final_performances[id].category_id = final_performances[other].category_id
     /\ final_performances[other].performance_order < final_performances[id].performance_order
     /\ VoteCount(id) = 2 /\ VoteCount(other) = 1
     /\ final_performances[id].category_id \in DOMAIN categoryPerformances[a]
     /\ categoryPerformances[a][final_performances[id].category_id] = <<id>>

\* C16: every row inserted into final_performances is for a participant whose
\* stored status is "selected" when the row is inserted.
C16_AddedForSelected ==
  [][\A id \in DOMAIN final_performances' \ DOMAIN final_performances :
       participants[final_performances'[id].participant_id].status = "selected"]_vars

\* how many notifications of one type about one row a participant has
NotificationsOf(notifs, p, type, related) ==
  LET rows == {n \in BagToSet(notifs) :
                 n.participant_id = p /\ n.type = type /\ n.related_id = related} IN
  BagCardinality([n \in rows |-> CopiesIn(n, notifs)])

\* C19: every step that activates an announcement (inserts it active, or takes it
\* from inactive to active by the toggle or the edit form) creates exactly one
\* notification about it for each participant it addresses (everyone without a
\* category, the participants of its category otherwise) and none for the others.
C19_ActivationNotifies ==
  [][\A id \in AnnouncementIds :
       (/\ id \in DOMAIN announcements'
        /\ announcements'[id].is_active
        /\ (id \notin DOMAIN announcements \/ ~announcements[id].is_active)) =>
          \A p \in ParticipantIds :
             NotificationsOf(notifications', p, "announcement", id) =
               NotificationsOf(notifications, p, "announcement", id) +
                 (IF \/ announcements'[id].category_id = NULL
                     \/ announcements'[id].category_id = participants[p].category_id
                    THEN 1 ELSE 0)]_vars

\* C20: in every step, a participant whose status changes gets exactly one new
\* status_change notification, and a participant whose status stays the same,
\* also when an update writes the status the row already has, gets none.
C20_StatusChangeNotifies ==
  [][\A p \in ParticipantIds :
       NotificationsOf(notifications', p, "status_change", NO_RELATED) =
         NotificationsOf(notifications, p, "status_change", NO_RELATED) +
           (IF participants'[p].status # participants[p].status THEN 1 ELSE 0)]_vars

\* p1's status has been changed once and p2's never: one notification, for p1
C20_Witness ==
  /\ participants["p1"].status = "not_selected"
  /\ participants["p2"].status = InitParticipants["p2"].status
  /\ NotificationsOf(notifications, "p1", "status_change", NO_RELATED) = 1
  /\ NotificationsOf(notifications, "p2", "status_change", NO_RELATED) = 0

\* C21: notification rows are created by the triggers only: every step that
\* stores a new notification row is a mutation of announcements, participants or
\* auditions, the tables the four triggers are on.
C21_OnlyTriggersCreate ==
  [][NotificationIds(notifications') \ NotificationIds(notifications) # {} =>
       \/ announcements' # announcements
       \/ participants' # participants
       \/ auditions' # auditions]_vars

\* the moves of the lifecycle pending -> audition_scheduled -> {selected, not_selected}
Progression ==
  {<<"pending", "audition_scheduled">>, <<"audition_scheduled", "selected">>,
   <<"audition_scheduled", "not_selected">>}

\* C22: every change of a participant's status is a move of the linear
\* progression: none goes backwards, skips audition_scheduled, or leaves
\* selected or not_selected.
C22_StatusProgression ==
  [][\A p \in ParticipantIds :
       participants'[p].status # participants[p].status =>
          <<participants[p].status, participants'[p].status>> \in Progression]_vars

\* the stored auditions of a participant
AuditionsOf(p) == {id \in DOMAIN auditions : auditions[id].participant_id = p}

\* C23: no participant has two stored audition rows.
C23_OneAuditionPerParticipant ==
  \A p \in ParticipantIds : Cardinality(AuditionsOf(p)) <= 1

\* C24: when saving an audition edit ends without an error banner, the stored
\* status of the audition's participant is the one the saved result maps to:
\* selected for qualified, not_selected for not_qualified, audition_scheduled for
\* pending.
C24_ResultFeedsStatus ==
  [][\A a \in AdminSessions, id \in AuditionIds, result \in Results, statusFails \in BOOLEAN :
       (/\ auditionError'[a] = NULL
        /\ HandleSaveEdit(a, id, TRUE, result, FALSE, statusFails)) =>
          participants'[adminAuditions[a][id].participant_id].status =
            (CASE result = "qualified" -> "selected"
               [] result = "not_qualified" -> "not_selected"
               [] result = "pending" -> "audition_scheduled")]_vars

\* C25: submitting the add form without a participant or with an empty title
\* shows the required-fields message and writes nothing: no performance row is
\* inserted and no table changes.
C25_AddValidated ==
  [][\A a \in AdminSessions, p \in ParticipantIds \cup {NULL}, title \in Titles,
        order \in Orders :
       ((p = NULL \/ title = "") /\ HandleAddPerformance(a, p, title, order)) =>
          /\ adminError'[a] = FILL_REQUIRED
          /\ DOMAIN final_performances' = DOMAIN final_performances
          /\ nextPerfId' = nextPerfId
          /\ UNCHANGED storage]_vars

\* the banner shows the required-fields message and no performance was ever added
C25_Witness ==
  \E a \in AdminSessions :
     /\ adminError[a] = FILL_REQUIRED
     /\ nextPerfId = MaxPerf + 1
     /\ DOMAIN final_performances = InitPerfIds

\* C26: every toggle of a stored performance leaves its is_active the opposite
\* of the value stored just before, also when two sessions that loaded the same
\* list toggle the same performance.
C26_ToggleFlips ==
  [][\A a \in BothSessions, id \in DOMAIN final_performances :
       TogglePerformanceStatus(a, id) =>
          final_performances'[id].is_active = ~final_performances[id].is_active]_vars

\* the ids and counts a listing shows
Counts(listing) == [i \in DOMAIN listing |-> <<listing[i].id, listing[i].vote_count>>]

C28_FailureLeavesRetry ==
  [][\A c \in BagToSet(calls) :
       (c.error \in RequestFailures \cup {"23503", "42501"} /\ HandleVoteResponse(c))
         => /\ message'[c.tab] = (IF c.error = "thrown" THEN VOTE_UNEXPECTED ELSE VOTE_FAILED)
            /\ performance_votes' = performance_votes
            /\ localStorage' = localStorage
            /\ performances' = performances
            /\ votingFor'[c.tab] = NO_PERFORMANCE
            /\ c.performance_id \notin getVotedPerformances(localStorage', TabDevice(c.tab))]_vars

\* a vote request was lost, and the retry from the same tab stored the vote
C28_Witness ==
  \E f \in failed :
     /\ message[f[1]] = VOTE_RECORDED
     /\ f[2] \in getVotedPerformances(localStorage, TabDevice(f[1]))
     /\ BagIn(VoteRow(f[2], localStorage[TabDevice(f[1])].voter_id), performance_votes)
\* C29: every performance id in a device's local voted list either names no
\* stored performance any more, or has a stored vote row for that performance
\* and the device's persisted voter identifier.
C29_VotedListBacked ==
  \A d \in Devices : \A id \in localStorage[d].voted_performances :
     \/ id \notin DOMAIN final_performances
     \/ BagIn(VoteRow(id, localStorage[d].voter_id), performance_votes)

\* a device's list holds a performance that was deleted after the vote and one
\* that is stored with the device's vote row
C29_Witness ==
  \E d \in Devices : \E id1, id2 \in localStorage[d].voted_performances :
     /\ id1 \notin DOMAIN final_performances
     /\ id2 \in DOMAIN final_performances
     /\ BagIn(VoteRow(id2, localStorage[d].voter_id), performance_votes)
     /\ failed # {}
\* the entries of the bell's list that are read
ReadInBell(list) == {list[i].id : i \in {j \in DOMAIN list : list[j].is_read}}

\* C30: in the notification bell, after every step unreadCount is the number of
\* entries of the local list whose is_read is false, and an entry that was read
\* before the step is not unread after it.
C30_BadgeCountsUnread ==
  [][/\ unreadCount' = Cardinality(UnreadIn(bellNotifications'))
     /\ \A i \in DOMAIN bellNotifications' :
          bellNotifications'[i].id \in ReadInBell(bellNotifications)
            => bellNotifications'[i].is_read]_vars
====
